---------------------------- MODULE Spec2Model ----------------------------
(***************************************************************************)
(* I2ITE (src/i2ite.py): a host-side session that talks to an ITE embedded *)
(* controller through its SMBus debug interface.  The session state of     *)
(* class I2ITE and every method of it are modelled here; the I2C transport *)
(* (pyftdi) is replaced by a simulated register file.                      *)
(*                                                                         *)
(* A Python method is an operator from a machine record m to the machine   *)
(* record after the call.  m.err holds the exception in flight ("none"     *)
(* when there is none): every operator returns m unchanged when m.err is   *)
(* set, which is how an exception skips the rest of the caller's body.     *)
(* m.ret holds the value returned by the last call that returns one.       *)
(***************************************************************************)
EXTENDS Integers, Sequences, FiniteSets, TLC

(***************************************************************************)
(* class ADDR: the address map (hexadecimal in the source).                *)
(***************************************************************************)
I2C_CMD       == 90     \* 0x5a
I2C_DATA      == 53     \* 0x35
DBGR_CHIPIDH  == 0
DBGR_CHIPIDL  == 1
DBGR_CHIPVER  == 2
DBGR_ECINDAR0 == 4
DBGR_ECINDAR1 == 5
DBGR_ECINDAR2 == 6
DBGR_ECINDAR3 == 7
DBGR_ECINDDR  == 8
DBGR_BREAK    == 39     \* 0x27
DBGR_PCL      == 42     \* 0x2a
DBGR_PCM      == 43     \* 0x2b
DBGR_PCH      == 44     \* 0x2c
DBGR_XADDRL   == 46     \* 0x2e
DBGR_XADDRH   == 47     \* 0x2f
DBGR_XDATA    == 48     \* 0x30
DBGR_BKP1L    == 64     \* 0x40
DBGR_BKP1M    == 65     \* 0x41
DBGR_BKP1H    == 66     \* 0x42
XRAM_FLHCTRL3R          == 4195   \* 0x1063
XRAM_FLHCTRL3R_FFSPITRI == 1
XRAM_FLHCTRL3R_SIFE     == 8
XRAM_SLVISELR           == 7220   \* 0x1c34
XRAM_SLVISELR_OVRSMDBG  == 16
XRAM_ETWCTRL            == 7941   \* 0x1f05
XRAM_ETWCTRL_EWDSCEN    == 32
XRAM_ETWCTRL_EWDSCMS    == 16
XRAM_SFR                == 48896  \* 0xbf00
XRAM_IRAM               == 65280  \* 0xff00
BREAK_NONE    == 0
BREAK_ANY     == 1
BREAK_RESET   == 128
BITBANG_LENGTH == 16000

\* The marker of an unused breakpoint slot and of an unset address-high cache.
UNSET == -1

(***************************************************************************)
(* Arithmetic of the source on Python integers: x >> n is floor division   *)
(* by 2^n, x & 0xff is the remainder modulo 256 (also for negative x).     *)
(***************************************************************************)
Shr8(x)  == x \div 256
Shr16(x) == x \div 65536
Lo8(x)   == x % 256
Lo2(x)   == x % 4

\* x & ~bit and x | bit for a single-bit mask.
BitClear(x, bit) == IF (x \div bit) % 2 = 1 THEN x - bit ELSE x
BitOr(x, bit)    == IF (x \div bit) % 2 = 1 THEN x ELSE x + bit

Get(f, k, d) == IF k \in DOMAIN f THEN f[k] ELSE d
Put(f, k, v) == [x \in (DOMAIN f) \cup {k} |-> IF x = k THEN v ELSE f[x]]

(***************************************************************************)
(* The session (the attributes of I2ITE), the simulated device behind the  *)
(* transport, and what the last operation did.                             *)
(***************************************************************************)
VARIABLES
    connected,      \* self.connected
    con,            \* self.con: "none", "unconfigured", "open" or "closed"
    _xaddrh,        \* self._xaddrh: the cached XRAM address-high byte
    _breakpoints,   \* self._breakpoints: 3 slots
    regs,           \* device: the DBGR registers that were set (others read 0)
    cmd,            \* device: the DBGR register selected through I2C CMD
    xram,           \* device: the XRAM bytes that were set (others read 0)
    follow,         \* device: the flash controller is in follow mode
    held,           \* transport: the bus is held (the last call had relax=False)
    op,             \* the last operation called and its arguments
    trace,          \* the transport calls the last operation made
    err,            \* the error the last operation raised, or "none"
    ret             \* the value the last operation returned

vars == <<connected, con, _xaddrh, _breakpoints, regs, cmd, xram, follow, held,
          op, trace, err, ret>>

\* m.ret is a sequence of integers: empty when the operation returns nothing,
\* <<b>> for a byte or a number, the bytes or the slots for a list.
NoRet == <<>>

(***************************************************************************)
(* The machine record an operation starts from: the session and the device *)
(* as they are, nothing done yet.  fuse = n > 0 makes the n-th transport   *)
(* call of the operation raise (an I/O error of the transport); fuse = 0   *)
(* lets every call succeed.                                                *)
(***************************************************************************)
Begin(fuse) ==
    [connected |-> connected, con |-> con, xaddrh |-> _xaddrh,
     bkp |-> _breakpoints, regs |-> regs, cmd |-> cmd, xram |-> xram,
     follow |-> follow, held |-> held,
     trace |-> <<>>, err |-> "none", ret |-> NoRet, fuse |-> fuse]


\* F applied to the value of m: m is evaluated once, whatever F does with it.
Do(m, F(_)) == CHOOSE r \in {F(x) : x \in {m}} : TRUE

Raise(m, e) == Do(m, LAMBDA x : IF x.err # "none" THEN x ELSE [x EXCEPT !.err = e])
Return(m, v) == Do(m, LAMBDA x : IF x.err # "none" THEN x ELSE [x EXCEPT !.ret = v])

\* One entry of the trace: the call, the DBGR register it reached (-1: none),
\* the byte moved (-1: none) and its relax flag.
Entry(k, reg, val, relax) == [k |-> k, reg |-> reg, val |-> val, relax |-> relax]

(***************************************************************************)
(* The simulated register file behind the two I2C addresses.  A write to   *)
(* CMD selects a DBGR register; DATA reads or writes the selected one.     *)
(* XDATA is the window onto the XRAM byte at XADDRH:XADDRL.  Writing 0     *)
(* through ECINDDR with ECINDAR at 0x7ffffe00 (0xfffffe00 extended) enters *)
(* flash follow mode, zeroing ECINDAR leaves it.  In the three operators   *)
(* below m is a value already.                                             *)
(***************************************************************************)
Reg(m, r) == Get(m.regs, r, 0)
XAddr(m)  == Reg(m, DBGR_XADDRH) * 256 + Reg(m, DBGR_XADDRL)
Ecindar(m) == <<Reg(m, DBGR_ECINDAR3), Reg(m, DBGR_ECINDAR2),
                Reg(m, DBGR_ECINDAR1), Reg(m, DBGR_ECINDAR0)>>
ECINDARn == {DBGR_ECINDAR0, DBGR_ECINDAR1, DBGR_ECINDAR2, DBGR_ECINDAR3}
FollowEntry == {<<127, 255, 254, 0>>, <<255, 255, 254, 0>>}
FlashIdBytes == <<200, 64, 19>>

RegRead(m, r) ==
    IF r = DBGR_XDATA THEN Get(m.xram, XAddr(m), 0) ELSE Reg(m, r)

RegWrite(m, r, v) ==
    IF r = DBGR_XDATA
    THEN [m EXCEPT !.xram = Put(@, XAddr(m), v)]
    ELSE Do([m EXCEPT !.regs = Put(@, r, v)], LAMBDA m1 :
         IF r = DBGR_ECINDDR /\ Ecindar(m1) \in FollowEntry /\ v = 0
         THEN [m1 EXCEPT !.follow = TRUE]
         ELSE IF r \in ECINDARn /\ Ecindar(m1) = <<0, 0, 0, 0>>
         THEN [m1 EXCEPT !.follow = FALSE]
         ELSE m1)

(***************************************************************************)
(* A transport call: skipped when an exception is in flight, raising when  *)
(* the fuse has run down to it, otherwise done and recorded.               *)
(***************************************************************************)
Called(m, e) ==
    [m EXCEPT !.trace = Append(@, e),
              !.fuse = IF @ > 0 THEN @ - 1 ELSE 0]
Blown(m) == [m EXCEPT !.err = "TransportError", !.fuse = 0]

\* self.con.write(i2c, [val], relax=relax)
con_write(m, i2c, val, relax) ==
    Do(m, LAMBDA x :
    IF x.err # "none" THEN x
    ELSE IF x.fuse = 1 THEN Blown(x)
    ELSE IF i2c = I2C_CMD
    THEN Called([x EXCEPT !.cmd = val, !.held = ~relax],
                Entry("cmd", val, -1, relax))
    ELSE Called([RegWrite(x, x.cmd, val) EXCEPT !.held = ~relax],
                Entry("write", x.cmd, val, relax)))

\* self.con.read(ADDR.I2C.DATA, relax=relax)[0]
con_read(m, relax) ==
    Do(m, LAMBDA x :
    IF x.err # "none" THEN x
    ELSE IF x.fuse = 1 THEN Blown(x)
    ELSE Called([x EXCEPT !.held = ~relax, !.ret = <<RegRead(x, x.cmd)>>],
                Entry("read", x.cmd, RegRead(x, x.cmd), relax)))

\* bytes(self.con.read(ADDR.I2C.DATA, 3)): in follow mode the flash answers.
con_read3(m) ==
    Do(m, LAMBDA x :
    IF x.err # "none" THEN x
    ELSE IF x.fuse = 1 THEN Blown(x)
    ELSE LET b == RegRead(x, x.cmd)
             id == IF x.follow THEN FlashIdBytes ELSE <<b, b, b>>
         IN  Called([x EXCEPT !.held = FALSE, !.ret = id],
                    Entry("read3", x.cmd, id[1], TRUE)))

\* A transport call that moves no register byte (GPIO, configure, close).
con_call(m, k) ==
    Do(m, LAMBDA x :
    IF x.err # "none" THEN x
    ELSE IF x.fuse = 1 THEN Blown(x)
    ELSE Called(x, Entry(k, -1, -1, TRUE)))

\* bytes * int: the byte string s repeated n times
Repeat(s, n) == [i \in 1..(Len(s) * n) |-> s[((i - 1) % Len(s)) + 1]]

BITBANG_PATTERN == <<0, 0, 2, 3, 1, 1, 3, 2>>

\* Faulty variant: the pattern is repeated once per byte of the length.
wave_per_byte == Repeat(BITBANG_PATTERN, BITBANG_LENGTH)

\* wave = BITBANG_PATTERN * int(BITBANG_LENGTH / 8)
wave == Repeat(BITBANG_PATTERN, BITBANG_LENGTH \div 8)

\* g.write(data): the call is recorded with the number of bytes written.
gpio_write(m, data) ==
    Do(m, LAMBDA x :
    IF x.err # "none" THEN x
    ELSE IF x.fuse = 1 THEN Blown(x)
    ELSE Called(x, Entry("gpio_write", -1, Len(data), TRUE)))

(***************************************************************************)
(* The decorators.                                                         *)
(***************************************************************************)
\* Faulty variant: the guard lets a disconnected session through.
connected_wrapper_off(m) == m

connected_wrapper(m) ==
    Do(m, LAMBDA x :
    IF x.err # "none" THEN x
    ELSE IF ~x.connected THEN Raise(x, "NotConnected")
    ELSE x)

\* Faulty variant: only the upper bound is checked.
limit_addr_upper(m, _min, _max, addr) ==
    Do(m, LAMBDA x :
    IF x.err # "none" THEN x
    ELSE IF ~(addr <= _max) THEN Raise(x, "AddressOutOfRange")
    ELSE x)

limit_addr(m, _min, _max, addr) ==
    Do(m, LAMBDA x :
    IF x.err # "none" THEN x
    ELSE IF ~(_min <= addr /\ addr <= _max) THEN Raise(x, "AddressOutOfRange")
    ELSE x)

(***************************************************************************)
(* The register address-space engine.                                      *)
(***************************************************************************)
dbgr_read(m, addr, relax) ==
    Do(limit_addr(connected_wrapper(m), 0, 255, addr), LAMBDA m0 :
    Do(con_write(m0, I2C_CMD, addr, FALSE), LAMBDA m1 :
    con_read(m1, relax)))

dbgr_write(m, addr, data, relax) ==
    Do(limit_addr(connected_wrapper(m), 0, 255, addr), LAMBDA m0 :
    Do(con_write(m0, I2C_CMD, addr, FALSE), LAMBDA m1 :
    con_write(m1, I2C_DATA, data, relax)))

\* Faulty variant: the XADDRL write is given the caller's relax flag.
xram_read_relax_setup(m, addr, relax, keep_addrh) ==
    Do(limit_addr(connected_wrapper(m), 0, 65535, addr), LAMBDA m0 :
    LET addrh == Lo8(Shr8(addr)) IN
    Do(IF m0.err = "none" /\ (~keep_addrh \/ addrh # m0.xaddrh)
       THEN dbgr_write([m0 EXCEPT !.xaddrh = addrh], DBGR_XADDRH, addrh, FALSE)
       ELSE m0, LAMBDA m1 :
    Do(dbgr_write(m1, DBGR_XADDRL, Lo8(addr), relax), LAMBDA m2 :
    dbgr_read(m2, DBGR_XDATA, relax))))

xram_read(m, addr, relax, keep_addrh) ==
    Do(limit_addr(connected_wrapper(m), 0, 65535, addr), LAMBDA m0 :
    LET addrh == Lo8(Shr8(addr)) IN
    Do(IF m0.err = "none" /\ (~keep_addrh \/ addrh # m0.xaddrh)
       THEN dbgr_write([m0 EXCEPT !.xaddrh = addrh], DBGR_XADDRH, addrh, FALSE)
       ELSE m0, LAMBDA m1 :
    Do(dbgr_write(m1, DBGR_XADDRL, Lo8(addr), FALSE), LAMBDA m2 :
    dbgr_read(m2, DBGR_XDATA, relax))))

\* Faulty variant: the write leaves XADDRH as the previous access set it.
xram_write_no_addrh(m, addr, data, relax) ==
    Do(limit_addr(connected_wrapper(m), 0, 65535, addr), LAMBDA m0 :
    Do(dbgr_write(m0, DBGR_XADDRL, Lo8(addr), FALSE), LAMBDA m2 :
    dbgr_write(m2, DBGR_XDATA, data, relax)))

xram_write(m, addr, data, relax) ==
    Do(limit_addr(connected_wrapper(m), 0, 65535, addr), LAMBDA m0 :
    Do(dbgr_write(m0, DBGR_XADDRH, Shr8(addr), FALSE), LAMBDA m1 :
    Do(dbgr_write(m1, DBGR_XADDRL, Lo8(addr), FALSE), LAMBDA m2 :
    dbgr_write(m2, DBGR_XDATA, data, relax))))

sfr_read(m, addr, relax) ==
    Do(limit_addr(connected_wrapper(m), 128, 255, addr), LAMBDA m0 :
    xram_read(m0, addr + XRAM_SFR, relax, FALSE))

sfr_write(m, addr, data, relax) ==
    Do(limit_addr(connected_wrapper(m), 128, 255, addr), LAMBDA m0 :
    xram_write(m0, addr + XRAM_SFR, data, relax))

iram_read(m, addr, relax) ==
    Do(limit_addr(connected_wrapper(m), 0, 255, addr), LAMBDA m0 :
    xram_read(m0, addr + XRAM_IRAM, relax, FALSE))

iram_write(m, addr, data, relax) ==
    Do(limit_addr(connected_wrapper(m), 0, 255, addr), LAMBDA m0 :
    xram_write(m0, addr + XRAM_IRAM, data, relax))


(***************************************************************************)
(* Connection life cycle.                                                  *)
(***************************************************************************)
close(m) ==
    Do(m, LAMBDA x :
    IF x.err # "none" \/ ~x.connected THEN x
    ELSE Do(con_call(x, "i2c_close"), LAMBDA m1 :
         IF m1.err # "none" THEN m1
         ELSE [m1 EXCEPT !.con = "closed", !.connected = FALSE]))

\* Faulty variant: the waveform is sent whether or not the session is connected.
_send_dbgr_waveform_unguarded(m) ==
    Do(m, LAMBDA x :
    Do(con_call(x, "gpio_configure"), LAMBDA g1 :
    Do(gpio_write(g1, wave), LAMBDA g2 :
    Do(con_call(g2, "gpio_purge"), LAMBDA g3 :
    Do(con_call(g3, "gpio_release"), LAMBDA g4 :
    con_call(g4, "gpio_close"))))))

\* The GPIO controller is configured, the waveform written, the buffers
\* purged, the pins released and the controller closed.
_send_dbgr_waveform(m) ==
    Do(m, LAMBDA x :
    IF x.err # "none" THEN x
    ELSE IF x.connected THEN Raise(x, "AlreadyConnected")
    ELSE Do(con_call(x, "gpio_configure"), LAMBDA g1 :
         Do(gpio_write(g1, wave), LAMBDA g2 :
         Do(con_call(g2, "gpio_purge"), LAMBDA g3 :
         Do(con_call(g3, "gpio_release"), LAMBDA g4 :
         con_call(g4, "gpio_close"))))))

chipid(m) ==
    Do(dbgr_read(connected_wrapper(m), DBGR_CHIPIDH, TRUE), LAMBDA m1 :
    Do(dbgr_read(m1, DBGR_CHIPIDL, TRUE), LAMBDA m2 :
    IF m2.err # "none" THEN m2
    ELSE LET id == m1.ret[1] * 256 + m2.ret[1]
         IN  IF id \in {0, 65535} THEN Raise(m2, "InvalidChipId")
             ELSE Return(m2, <<id>>)))

\* self.con = I2cController(); self.con.configure(...); set_latency_timer(1)
i2c_configure(m) ==
    Do(m, LAMBDA x :
    IF x.err # "none" THEN x
    ELSE Do(con_call([x EXCEPT !.con = "unconfigured"], "i2c_configure"),
         LAMBDA c1 :
         IF c1.err # "none" THEN c1
         ELSE con_call([c1 EXCEPT !.con = "open"], "i2c_latency")))

\* except: the handler of open, entered with the exception caught
open_except(m) ==
    Do(con_call([m EXCEPT !.err = "none", !.connected = FALSE, !.ret = NoRet],
                "i2c_close"), LAMBDA h1 :
    IF h1.err # "none" THEN h1
    ELSE Raise([h1 EXCEPT !.con = "closed"], "ConnectionFailed"))

open(m) ==
    Do(close(m), LAMBDA m0 :
    Do(_send_dbgr_waveform(m0), LAMBDA m1 :
    Do(i2c_configure(m1), LAMBDA m2 :
    IF m2.err # "none" THEN m2
    ELSE Do(chipid([m2 EXCEPT !.connected = TRUE]), LAMBDA m3 :
         IF m3.err # "none" THEN open_except(m3)
         ELSE Return(m3, NoRet)))))

connect(m) == open(m)

\* I2ITE.relax (the name is taken by the relax flag of the calls above)
do_relax(m) ==
    Do(con_call(m, "epilog"), LAMBDA m1 :
    IF m1.err # "none" THEN m1 ELSE [m1 EXCEPT !.held = FALSE])

chipver(m) ==
    Do(dbgr_read(connected_wrapper(m), DBGR_CHIPVER, TRUE), LAMBDA m1 :
    IF m1.err # "none" THEN m1 ELSE Return(m1, <<m1.ret[1] % 16>>))

flash_size(m) ==
    Do(dbgr_read(connected_wrapper(m), DBGR_CHIPVER, TRUE), LAMBDA m1 :
    IF m1.err # "none" THEN m1
    ELSE Return(m1, <<m1.ret[1] - (m1.ret[1] % 16)>>))

disable_watchdog(m) ==
    xram_write(connected_wrapper(m), XRAM_ETWCTRL,
               XRAM_ETWCTRL_EWDSCEN + XRAM_ETWCTRL_EWDSCMS, TRUE)

dbgr_disable(m) ==
    xram_write(connected_wrapper(m), XRAM_SLVISELR,
               XRAM_SLVISELR_OVRSMDBG, TRUE)

(***************************************************************************)
(* The indirect window and flash follow mode.                              *)
(***************************************************************************)
\* A 32-bit window address is the pair <<bits 31..16, bits 15..0>> (the
\* model checker's integers are 32 bits wide and signed; Python's are not).
FOLLOW_ADDR  == <<32767, 65024>>     \* 0x7ffffe00
COMMAND_ADDR == <<32767, 64768>>     \* 0x7ffffd00
\* addr | (int(ext) << 31), for an addr with bit 31 clear
OrExt(addr, ext) == IF ext THEN <<addr[1] + 32768, addr[2]>> ELSE addr
JEDEC_ID     == 159                  \* 0x9f

ecindar_addr(m, addr, relax) ==
    Do(connected_wrapper(m), LAMBDA m0 :
    Do(dbgr_write(m0, DBGR_ECINDAR3, Lo8(Shr8(addr[1])), FALSE), LAMBDA m1 :
    Do(dbgr_write(m1, DBGR_ECINDAR2, Lo8(addr[1]), FALSE), LAMBDA m2 :
    Do(dbgr_write(m2, DBGR_ECINDAR1, Lo8(Shr8(addr[2])), FALSE), LAMBDA m3 :
    dbgr_write(m3, DBGR_ECINDAR0, Lo8(addr[2]), relax)))))

ecindar_read(m, addr, relax) ==
    Do(ecindar_addr(connected_wrapper(m), addr, FALSE), LAMBDA m1 :
    dbgr_read(m1, DBGR_ECINDDR, relax))

ecindar_write(m, addr, data, relax) ==
    Do(ecindar_addr(connected_wrapper(m), addr, FALSE), LAMBDA m1 :
    dbgr_write(m1, DBGR_ECINDDR, data, relax))

flash_enter_follow_mode(m, ext) ==
    ecindar_write(connected_wrapper(m), OrExt(FOLLOW_ADDR, ext), 0, TRUE)

flash_exit_follow_mode(m) ==
    ecindar_addr(connected_wrapper(m), <<0, 0>>, TRUE)

\* reg &= ~FLHCTRL3R_FFSPITRI; reg |= FLHCTRL3R_SIFE
flash_ext_setup(m) ==
    Do(xram_read(m, XRAM_FLHCTRL3R, TRUE, FALSE), LAMBDA r1 :
    IF r1.err # "none" THEN r1
    ELSE xram_write(r1, XRAM_FLHCTRL3R,
                    BitOr(BitClear(r1.ret[1], XRAM_FLHCTRL3R_FFSPITRI),
                          XRAM_FLHCTRL3R_SIFE), TRUE))

_flash_id(m, ext) ==
    Do(IF ext THEN flash_ext_setup(m) ELSE m, LAMBDA m1 :
    Do(flash_enter_follow_mode(m1, ext), LAMBDA m2 :
    Do(ecindar_write(m2, OrExt(COMMAND_ADDR, ext), JEDEC_ID, TRUE), LAMBDA m3 :
    Do(con_read3(m3), LAMBDA m4 :
    Do(flash_exit_follow_mode(m4), LAMBDA m5 :
    Return(m5, m4.ret))))))

flash_id(m) == _flash_id(connected_wrapper(m), FALSE)

flash_id_ext(m) == _flash_id(connected_wrapper(m), TRUE)

ec_stop(m) ==
    Do(flash_enter_follow_mode(connected_wrapper(m), FALSE), LAMBDA m1 :
    flash_exit_follow_mode(m1))

(***************************************************************************)
(* Execution control.                                                      *)
(***************************************************************************)
\* ADDR.XRAM.RSTC1_GPIO is not an attribute of ADDR.XRAM (RSTC1_RGPIO is).
ec_gpio_reset(m) == Raise(connected_wrapper(m), "AttributeError")

ec_reset(m) ==
    dbgr_write(connected_wrapper(m), DBGR_BREAK, BREAK_RESET, TRUE)

ec_break(m, typ) ==
    dbgr_write(connected_wrapper(m), DBGR_BREAK, typ, TRUE)

ec_continue(m) ==
    dbgr_write(connected_wrapper(m), DBGR_BREAK, BREAK_NONE, TRUE)

ec_pc(m) ==
    Do(dbgr_read(connected_wrapper(m), DBGR_PCH, FALSE), LAMBDA m1 :
    Do(dbgr_read(m1, DBGR_PCM, FALSE), LAMBDA m2 :
    Do(dbgr_read(m2, DBGR_PCL, TRUE), LAMBDA m3 :
    IF m3.err # "none" THEN m3
    ELSE Return(m3, <<Lo2(m1.ret[1]) * 65536 + m2.ret[1] * 256
                      + m3.ret[1]>>))))

(***************************************************************************)
(* The breakpoint table.  Slot id of the source is index id + 1 here.      *)
(***************************************************************************)
Contains(s, x) == \E i \in 1..Len(s) : s[i] = x
\* list.index(x): the first position holding x, counted from 0
Index(s, x) == (CHOOSE i \in 1..Len(s) :
                    s[i] = x /\ \A j \in 1..(i - 1) : s[j] # x) - 1

\* Faulty variant: the bytes go out low byte first.
ec_breakpoint_set_low_first(m, id, addr) ==
    Do(connected_wrapper(m), LAMBDA m0 :
    IF m0.err # "none" THEN m0
    ELSE IF id \notin 0..2 THEN Raise(m0, "InvalidBreakpointId")
    ELSE IF addr > 262143 THEN Raise(m0, "InvalidBreakpointAddress")
    ELSE
    Do(dbgr_write(m0, DBGR_BKP1L + id * 3, Lo8(addr), FALSE), LAMBDA m1 :
    Do(dbgr_write(m1, DBGR_BKP1M + id * 3, Lo8(Shr8(addr)), FALSE), LAMBDA m2 :
    Do(dbgr_write(m2, DBGR_BKP1H + id * 3, Lo2(Shr16(addr)), TRUE), LAMBDA m3 :
    IF m3.err # "none" THEN m3
    ELSE [m3 EXCEPT !.bkp[id + 1] = addr]))))

ec_breakpoint_set(m, id, addr) ==
    Do(connected_wrapper(m), LAMBDA m0 :
    IF m0.err # "none" THEN m0
    ELSE IF id \notin 0..2 THEN Raise(m0, "InvalidBreakpointId")
    ELSE IF addr > 262143 THEN Raise(m0, "InvalidBreakpointAddress")
    ELSE
    Do(dbgr_write(m0, DBGR_BKP1H + id * 3, Lo2(Shr16(addr)), FALSE), LAMBDA m1 :
    Do(dbgr_write(m1, DBGR_BKP1M + id * 3, Lo8(Shr8(addr)), FALSE), LAMBDA m2 :
    Do(dbgr_write(m2, DBGR_BKP1L + id * 3, Lo8(addr), TRUE), LAMBDA m3 :
    IF m3.err # "none" THEN m3
    ELSE [m3 EXCEPT !.bkp[id + 1] = addr]))))

ec_breakpoints(m) ==
    Do(connected_wrapper(m), LAMBDA m0 : Return(m0, m0.bkp))

\* Faulty variant: the last empty slot is taken, not the first.
ec_breakpoint_add_last_free(m, addr) ==
    Do(connected_wrapper(m), LAMBDA m0 :
    IF m0.err # "none" THEN m0
    ELSE IF Contains(m0.bkp, addr) THEN m0
    ELSE IF ~Contains(m0.bkp, UNSET) THEN Raise(m0, "NoFreeBreakpointSlot")
    ELSE ec_breakpoint_set(m0,
            (CHOOSE i \in 1..3 : m0.bkp[i] = UNSET
                /\ \A j \in (i + 1)..3 : m0.bkp[j] # UNSET) - 1, addr))

\* Faulty variant: the address is placed without looking for it first.
ec_breakpoint_add_unchecked(m, addr) ==
    Do(connected_wrapper(m), LAMBDA m0 :
    IF m0.err # "none" THEN m0
    ELSE IF ~Contains(m0.bkp, UNSET) THEN Raise(m0, "NoFreeBreakpointSlot")
    ELSE ec_breakpoint_set(m0, Index(m0.bkp, UNSET), addr))

ec_breakpoint_add(m, addr) ==
    Do(connected_wrapper(m), LAMBDA m0 :
    IF m0.err # "none" THEN m0
    ELSE IF Contains(m0.bkp, addr) THEN m0
    ELSE IF ~Contains(m0.bkp, UNSET) THEN Raise(m0, "NoFreeBreakpointSlot")
    ELSE ec_breakpoint_set(m0, Index(m0.bkp, UNSET), addr))

\* Faulty variant: an address that is not in the table is passed over.
ec_breakpoint_remove_silent(m, addr) ==
    Do(connected_wrapper(m), LAMBDA m0 :
    IF m0.err # "none" THEN m0
    ELSE IF ~Contains(m0.bkp, addr) THEN m0
    ELSE LET id == Index(m0.bkp, addr) IN
    Do(dbgr_write(m0, DBGR_BKP1H + id * 3, 255, TRUE), LAMBDA m1 :
    IF m1.err # "none" THEN m1
    ELSE [m1 EXCEPT !.bkp[id + 1] = UNSET]))

ec_breakpoint_remove(m, addr) ==
    Do(connected_wrapper(m), LAMBDA m0 :
    IF m0.err # "none" THEN m0
    ELSE IF ~Contains(m0.bkp, addr) THEN Raise(m0, "BreakpointNotSet")
    ELSE LET id == Index(m0.bkp, addr) IN
    Do(dbgr_write(m0, DBGR_BKP1H + id * 3, 255, TRUE), LAMBDA m1 :
    IF m1.err # "none" THEN m1
    ELSE [m1 EXCEPT !.bkp[id + 1] = UNSET]))

\* Faulty variant: the registers are disabled, the table is kept.
ec_breakpoints_clear_keep_table(m) ==
    Do(dbgr_write(connected_wrapper(m), DBGR_BKP1H, 255, FALSE), LAMBDA m1 :
    Do(dbgr_write(m1, DBGR_BKP1H + 3, 255, FALSE), LAMBDA m2 :
    Do(dbgr_write(m2, DBGR_BKP1H + 6, 255, FALSE), LAMBDA m3 :
    do_relax(m3))))

ec_breakpoints_clear(m) ==
    Do(dbgr_write(connected_wrapper(m), DBGR_BKP1H, 255, FALSE), LAMBDA m1 :
    Do(dbgr_write(m1, DBGR_BKP1H + 3, 255, FALSE), LAMBDA m2 :
    Do(dbgr_write(m2, DBGR_BKP1H + 6, 255, FALSE), LAMBDA m3 :
    IF m3.err # "none" THEN m3
    ELSE do_relax([m3 EXCEPT !.bkp = <<UNSET, UNSET, UNSET>>]))))

(***************************************************************************)
(* The dumps: __init__ binds hexdump to the read of each space, d being    *)
(* "dbgr", "xram", "sfr" or "iram".                                        *)
(***************************************************************************)
\* read_func(addr, relax=False, keep_addrh=True): only xram_read takes
\* keep_addrh; the other reads, past their decorators, refuse the keyword.
read_func(m, d, addr) ==
    IF d = "xram" THEN xram_read(m, addr, FALSE, TRUE)
    ELSE Do(limit_addr(connected_wrapper(m), IF d = "sfr" THEN 128 ELSE 0,
                       255, addr), LAMBDA m0 :
         IF m0.err # "none" THEN m0 ELSE Raise(m0, "TypeError"))

\* [read_func(addr, ...) for addr in range(yaddr, yaddr + 0x10)], from addr on
RECURSIVE hexdump_line(_, _, _, _)
hexdump_line(m, d, addr, stop) ==
    IF m.err # "none" \/ addr >= stop THEN m
    ELSE Do(read_func(m, d, addr), LAMBDA m1 :
         hexdump_line(m1, d, addr + 1, stop))

\* for yaddr in range(start, end, 0x10), from yaddr on
RECURSIVE hexdump_lines(_, _, _, _)
hexdump_lines(m, d, yaddr, end) ==
    IF m.err # "none" \/ yaddr >= end THEN m
    ELSE Do(hexdump_line(m, d, yaddr, yaddr + 16), LAMBDA m1 :
         hexdump_lines(m1, d, yaddr + 16, end))

hexdump(m, d, start, end) ==
    Do(hexdump_lines(m, d, start - (start % 16), end), LAMBDA m1 :
    IF m1.err # "none" THEN m1 ELSE Return(do_relax(m1), NoRet))

(***************************************************************************)
(* Bounds: how many distinct pages, bytes and breakpoint addresses the     *)
(* operations are called with.                                             *)
(***************************************************************************)
NumPages == 2
NumBytes == 2
NumBkpts == 2

\* XRAM pages 0x12, 0x56, 0x9a, ...; bytes 0x56, 0xac, 0x02, ...
Pages == {(18 + 68 * (i - 1)) % 256 : i \in 1..NumPages}
Bytes == {(86 * i) % 256 : i \in 1..NumBytes}
\* Breakpoint addresses 0x2000, 0x12001, 0x22002, ...
Bkpts == {(8192 + 65537 * (i - 1)) % 262144 : i \in 1..NumBkpts}
\* The chip identifications the device may answer with.
ChipIds == {0, 65535, 34080}     \* 0x0000, 0xffff, 0x8520

(***************************************************************************)
(* One action per public operation: the whole call, with its arguments and *)
(* the transport call that fails (none when f = 0) chosen freely.          *)
(***************************************************************************)
O(name, addr, data, rlx, keep) ==
    [name |-> name, addr |-> addr, data |-> data, relax |-> rlx, keep |-> keep]

\* With faults, every transport call of the operation may be the one that
\* fails; without, none does.
Fuses(r, faults) == IF faults THEN 0..Len(r.trace) ELSE {0}

Commit(m, o) ==
    \E r \in {m} :
    /\ connected' = r.connected
    /\ con' = r.con
    /\ _xaddrh' = r.xaddrh
    /\ _breakpoints' = r.bkp
    /\ regs' = r.regs
    /\ cmd' = r.cmd
    /\ xram' = r.xram
    /\ follow' = r.follow
    /\ held' = r.held
    /\ op' = o
    /\ trace' = r.trace
    /\ err' = r.err
    /\ ret' = IF r.err = "none" THEN r.ret ELSE NoRet

Init ==
    /\ connected = FALSE
    /\ con = "none"
    /\ _xaddrh = UNSET
    /\ _breakpoints = <<UNSET, UNSET, UNSET>>
    /\ \E id \in ChipIds :
          regs = (DBGR_CHIPIDH :> (id \div 256)) @@ (DBGR_CHIPIDL :> (id % 256))
    /\ cmd = 0
    /\ xram = <<>>
    /\ follow = FALSE
    /\ held = FALSE
    /\ op = O("__init__", -1, -1, TRUE, FALSE)
    /\ trace = <<>>
    /\ err = "none"
    /\ ret = NoRet

Connect(faults) ==
    \E f \in Fuses(connect(Begin(0)), faults) :
        Commit(connect(Begin(f)), O("connect", -1, -1, TRUE, FALSE))

Close ==
    Commit(close(Begin(0)), O("close", -1, -1, TRUE, FALSE))

SendDbgrWaveform ==
    Commit(_send_dbgr_waveform(Begin(0)),
           O("_send_dbgr_waveform", -1, -1, TRUE, FALSE))

\* The arguments of a read are <<addr, relax>> (<<addr, relax, keep_addrh>>
\* for xram_read), those of a write <<addr, data, relax>>.
DbgrRead(Args, faults) ==
    \E a \in Args : \E f \in Fuses(dbgr_read(Begin(0), a[1], a[2]), faults) :
        Commit(dbgr_read(Begin(f), a[1], a[2]),
               O("dbgr_read", a[1], -1, a[2], FALSE))

DbgrWrite(Args, faults) ==
    \E a \in Args :
    \E f \in Fuses(dbgr_write(Begin(0), a[1], a[2], a[3]), faults) :
        Commit(dbgr_write(Begin(f), a[1], a[2], a[3]),
               O("dbgr_write", a[1], a[2], a[3], FALSE))

XramRead(Args, faults) ==
    \E a \in Args :
    \E f \in Fuses(xram_read(Begin(0), a[1], a[2], a[3]), faults) :
        Commit(xram_read(Begin(f), a[1], a[2], a[3]),
               O("xram_read", a[1], -1, a[2], a[3]))

XramWrite(Args, faults) ==
    \E a \in Args :
    \E f \in Fuses(xram_write(Begin(0), a[1], a[2], a[3]), faults) :
        Commit(xram_write(Begin(f), a[1], a[2], a[3]),
               O("xram_write", a[1], a[2], a[3], FALSE))

SfrRead(Args, faults) ==
    \E a \in Args : \E f \in Fuses(sfr_read(Begin(0), a[1], a[2]), faults) :
        Commit(sfr_read(Begin(f), a[1], a[2]),
               O("sfr_read", a[1], -1, a[2], FALSE))

SfrWrite(Args, faults) ==
    \E a \in Args :
    \E f \in Fuses(sfr_write(Begin(0), a[1], a[2], a[3]), faults) :
        Commit(sfr_write(Begin(f), a[1], a[2], a[3]),
               O("sfr_write", a[1], a[2], a[3], FALSE))

IramRead(Args, faults) ==
    \E a \in Args : \E f \in Fuses(iram_read(Begin(0), a[1], a[2]), faults) :
        Commit(iram_read(Begin(f), a[1], a[2]),
               O("iram_read", a[1], -1, a[2], FALSE))

IramWrite(Args, faults) ==
    \E a \in Args :
    \E f \in Fuses(iram_write(Begin(0), a[1], a[2], a[3]), faults) :
        Commit(iram_write(Begin(f), a[1], a[2], a[3]),
               O("iram_write", a[1], a[2], a[3], FALSE))

\* An operation without arguments, or with the one argument x.
O0(name) == O(name, -1, -1, TRUE, FALSE)

ChipId(faults) ==
    \E f \in Fuses(chipid(Begin(0)), faults) :
        Commit(chipid(Begin(f)), O0("chipid"))

ChipVer(faults) ==
    \E f \in Fuses(chipver(Begin(0)), faults) :
        Commit(chipver(Begin(f)), O0("chipver"))

FlashSize(faults) ==
    \E f \in Fuses(flash_size(Begin(0)), faults) :
        Commit(flash_size(Begin(f)), O0("flash_size"))

DisableWatchdog(faults) ==
    \E f \in Fuses(disable_watchdog(Begin(0)), faults) :
        Commit(disable_watchdog(Begin(f)), O0("disable_watchdog"))

DbgrDisable(faults) ==
    \E f \in Fuses(dbgr_disable(Begin(0)), faults) :
        Commit(dbgr_disable(Begin(f)), O0("dbgr_disable"))

\* The arguments of the window operations: <<addr, data, relax>>, addr a
\* pair of 16-bit halves (op.addr records it as one number).
EcindarAddr(Args, faults) ==
    \E a \in Args : \E f \in Fuses(ecindar_addr(Begin(0), a[1], a[3]), faults) :
        Commit(ecindar_addr(Begin(f), a[1], a[3]),
               O("ecindar_addr", a[1][1] * 65536 + a[1][2], -1, a[3], FALSE))

EcindarRead(Args, faults) ==
    \E a \in Args : \E f \in Fuses(ecindar_read(Begin(0), a[1], a[3]), faults) :
        Commit(ecindar_read(Begin(f), a[1], a[3]),
               O("ecindar_read", a[1][1] * 65536 + a[1][2], -1, a[3], FALSE))

EcindarWrite(Args, faults) ==
    \E a \in Args :
    \E f \in Fuses(ecindar_write(Begin(0), a[1], a[2], a[3]), faults) :
        Commit(ecindar_write(Begin(f), a[1], a[2], a[3]),
               O("ecindar_write", a[1][1] * 65536 + a[1][2], a[2], a[3], FALSE))

\* op.data records ext (1: extended).
FlashEnterFollowMode(Exts, faults) ==
    \E ext \in Exts :
    \E f \in Fuses(flash_enter_follow_mode(Begin(0), ext), faults) :
        Commit(flash_enter_follow_mode(Begin(f), ext),
               O("flash_enter_follow_mode", -1, IF ext THEN 1 ELSE 0,
                 TRUE, FALSE))

FlashExitFollowMode(faults) ==
    \E f \in Fuses(flash_exit_follow_mode(Begin(0)), faults) :
        Commit(flash_exit_follow_mode(Begin(f)), O0("flash_exit_follow_mode"))

FlashId(faults) ==
    \E f \in Fuses(flash_id(Begin(0)), faults) :
        Commit(flash_id(Begin(f)), O0("flash_id"))

FlashIdExt(faults) ==
    \E f \in Fuses(flash_id_ext(Begin(0)), faults) :
        Commit(flash_id_ext(Begin(f)), O0("flash_id_ext"))

EcStop(faults) ==
    \E f \in Fuses(ec_stop(Begin(0)), faults) :
        Commit(ec_stop(Begin(f)), O0("ec_stop"))

EcGpioReset ==
    Commit(ec_gpio_reset(Begin(0)), O0("ec_gpio_reset"))

EcReset(faults) ==
    \E f \in Fuses(ec_reset(Begin(0)), faults) :
        Commit(ec_reset(Begin(f)), O0("ec_reset"))

EcBreak(Typs, faults) ==
    \E typ \in Typs : \E f \in Fuses(ec_break(Begin(0), typ), faults) :
        Commit(ec_break(Begin(f), typ), O("ec_break", -1, typ, TRUE, FALSE))

EcContinue(faults) ==
    \E f \in Fuses(ec_continue(Begin(0)), faults) :
        Commit(ec_continue(Begin(f)), O0("ec_continue"))

EcPc(faults) ==
    \E f \in Fuses(ec_pc(Begin(0)), faults) :
        Commit(ec_pc(Begin(f)), O0("ec_pc"))

\* The arguments of ec_breakpoint_set are <<id, addr>> (op.data records id).
EcBreakpointSet(Args, faults) ==
    \E a \in Args :
    \E f \in Fuses(ec_breakpoint_set(Begin(0), a[1], a[2]), faults) :
        Commit(ec_breakpoint_set(Begin(f), a[1], a[2]),
               O("ec_breakpoint_set", a[2], a[1], TRUE, FALSE))

EcBreakpoints ==
    Commit(ec_breakpoints(Begin(0)), O0("ec_breakpoints"))

EcBreakpointAdd(Addrs, faults) ==
    \E addr \in Addrs :
    \E f \in Fuses(ec_breakpoint_add(Begin(0), addr), faults) :
        Commit(ec_breakpoint_add(Begin(f), addr),
               O("ec_breakpoint_add", addr, -1, TRUE, FALSE))

EcBreakpointRemove(Addrs, faults) ==
    \E addr \in Addrs :
    \E f \in Fuses(ec_breakpoint_remove(Begin(0), addr), faults) :
        Commit(ec_breakpoint_remove(Begin(f), addr),
               O("ec_breakpoint_remove", addr, -1, TRUE, FALSE))

EcBreakpointsClear(faults) ==
    \E f \in Fuses(ec_breakpoints_clear(Begin(0)), faults) :
        Commit(ec_breakpoints_clear(Begin(f)), O0("ec_breakpoints_clear"))

\* The arguments of a dump are <<d, start, end>>.
DumpName(d) ==
    CASE d = "dbgr" -> "dbgr_dump"
      [] d = "xram" -> "xram_dump"
      [] d = "sfr"  -> "sfr_dump"
      [] d = "iram" -> "iram_dump"

Dump(Args, faults) ==
    \E a \in Args :
    \E f \in Fuses(hexdump(Begin(0), a[1], a[2], a[3]), faults) :
        Commit(hexdump(Begin(f), a[1], a[2], a[3]),
               O(DumpName(a[1]), a[2], a[3], FALSE, TRUE))

(***************************************************************************)
(* The address spaces: reads and writes of the four spaces, inside and     *)
(* outside their bounds, on a session that connects and closes.  The       *)
(* transport does not fail here.                                           *)
(***************************************************************************)
OutOfDbgr == {-1, 256}
OutOfXram == {-1, 65536}
OutOfSfr  == {127, 256}
OutOfIram == {-1, 256}
InDbgr == {16}
InXram == {4660}        \* 0x1234
InSfr  == {128}
InIram == {255}

ReadArgs(In, Out)  == (In \X BOOLEAN) \cup (Out \X {TRUE})
WriteArgs(In, Out) == (In \X Bytes \X BOOLEAN) \cup (Out \X {86} \X {TRUE})

NextMem ==
    \/ Connect(FALSE)
    \/ DbgrRead(InDbgr \X BOOLEAN, FALSE)
    \/ DbgrWrite(InDbgr \X Bytes \X BOOLEAN, FALSE)
    \/ XramRead(InXram \X BOOLEAN \X BOOLEAN, FALSE)
    \/ XramWrite(InXram \X Bytes \X BOOLEAN, FALSE)
    \/ SfrRead(InSfr \X BOOLEAN, FALSE)
    \/ SfrWrite(InSfr \X Bytes \X BOOLEAN, FALSE)
    \/ IramRead(InIram \X BOOLEAN, FALSE)
    \/ IramWrite(InIram \X Bytes \X BOOLEAN, FALSE)

SpecMem == Init /\ [][NextMem]_vars

(***************************************************************************)
(* The session: it connects (the transport may fail), reads XRAM and adds  *)
(* breakpoints while connected, and closes; the caller tries every         *)
(* operation, with addresses inside and outside the bounds, while the      *)
(* session is disconnected.                                                *)
(***************************************************************************)
IdleCall ==
    \/ DbgrRead((InDbgr \cup OutOfDbgr) \X {TRUE}, FALSE)
    \/ DbgrWrite((InDbgr \cup OutOfDbgr) \X {86} \X {TRUE}, FALSE)
    \/ XramWrite((InXram \cup OutOfXram) \X {86} \X {TRUE}, FALSE)
    \/ SfrRead((InSfr \cup OutOfSfr) \X {TRUE}, FALSE)
    \/ SfrWrite((InSfr \cup OutOfSfr) \X {86} \X {TRUE}, FALSE)
    \/ IramRead((InIram \cup OutOfIram) \X {TRUE}, FALSE)
    \/ IramWrite((InIram \cup OutOfIram) \X {86} \X {TRUE}, FALSE)
    \/ ChipVer(FALSE)
    \/ FlashSize(FALSE)
    \/ DisableWatchdog(FALSE)
    \/ DbgrDisable(FALSE)
    \/ EcindarAddr({<<FOLLOW_ADDR, 0, TRUE>>}, FALSE)
    \/ EcindarRead({<<FOLLOW_ADDR, 0, TRUE>>}, FALSE)
    \/ EcindarWrite({<<FOLLOW_ADDR, 0, TRUE>>}, FALSE)
    \/ FlashEnterFollowMode(BOOLEAN, FALSE)
    \/ FlashExitFollowMode(FALSE)
    \/ FlashId(FALSE)
    \/ FlashIdExt(FALSE)
    \/ EcStop(FALSE)
    \/ EcGpioReset
    \/ EcReset(FALSE)
    \/ EcBreak({BREAK_ANY}, FALSE)
    \/ EcContinue(FALSE)
    \/ EcPc(FALSE)
    \/ EcBreakpointSet({0, 3} \X {8192, 262144}, FALSE)
    \/ EcBreakpoints
    \/ EcBreakpointRemove({8192}, FALSE)
    \/ EcBreakpointsClear(FALSE)

NextSession ==
    \/ Connect(TRUE)
    \/ Close
    \/ SendDbgrWaveform
    \/ XramRead(InXram \X {TRUE} \X BOOLEAN
                  \cup OutOfXram \X {TRUE} \X {FALSE}, FALSE)
    \/ EcBreakpointAdd(Bkpts, FALSE)
    \/ ChipId(FALSE)
    \/ ~connected /\ IdleCall

SpecSession == Init /\ [][NextSession]_vars

(***************************************************************************)
(* Properties of the session.                                              *)
(***************************************************************************)
HasCall(t, k) == \E i \in 1..Len(t) : t[i].k = k

\* The operations that need a connected session.
RegisterOps ==
    {"dbgr_read", "dbgr_write", "xram_read", "xram_write", "sfr_read",
     "sfr_write", "iram_read", "iram_write", "chipid", "chipver",
     "flash_size", "disable_watchdog", "dbgr_disable", "ecindar_addr",
     "ecindar_read", "ecindar_write", "flash_enter_follow_mode",
     "flash_exit_follow_mode", "flash_id", "flash_id_ext", "ec_stop",
     "ec_gpio_reset", "ec_reset", "ec_break", "ec_continue", "ec_pc",
     "ec_breakpoint_set", "ec_breakpoints", "ec_breakpoint_add",
     "ec_breakpoint_remove", "ec_breakpoints_clear"}

\* C1: every register or session-state operation called on a disconnected
\* session fails with NotConnected, makes no transport call and leaves the
\* connected flag, the address-high cache and the breakpoint table (and the
\* device) as they were, whatever its address argument.
C1_NotConnected ==
    [][(~connected /\ op'.name \in RegisterOps) =>
          /\ err' = "NotConnected"
          /\ trace' = <<>>
          /\ ret' = NoRet
          /\ UNCHANGED <<connected, con, _xaddrh, _breakpoints,
                         regs, cmd, xram, follow, held>>]_vars

\* C1 witness: a session that was connected, read XRAM and added a
\* breakpoint is closed, and xram_write with an address out of bounds is
\* refused with NotConnected.
C1_Witness ==
    /\ ~connected
    /\ op.name = "xram_write" /\ op.addr \in OutOfXram
    /\ err = "NotConnected" /\ trace = <<>>
    /\ _xaddrh # UNSET
    /\ _breakpoints # <<UNSET, UNSET, UNSET>>

\* The waveform went out: the failure of connect, if any, came after it.
WaveformSent == HasCall(trace, "gpio_close")

\* C3 (as claimed): a connect that fails once the waveform is out, in the
\* reconfiguration into I2C mode or on the chip identification, reports
\* ConnectionFailed and ends disconnected with the transport handle closed;
\* a connect that succeeds ends connected, and chipid returns the device's
\* identification.
C3_ConnectionFailed ==
    /\ (op.name = "connect" /\ err # "none" /\ WaveformSent) =>
          (err = "ConnectionFailed" /\ ~connected /\ con = "closed")
    /\ (op.name = "connect" /\ err = "none") =>
          (connected /\ con = "open")
    /\ (op.name = "chipid" /\ err = "none") =>
          ret = <<Get(regs, DBGR_CHIPIDH, 0) * 256 + Get(regs, DBGR_CHIPIDL, 0)>>

\* C4 (as claimed): the waveform step and connect, called on a connected
\* session, fail with AlreadyConnected, emit no waveform and leave the
\* session connected.
C4_AlreadyConnected_Claimed ==
    [][(connected /\ op'.name \in {"_send_dbgr_waveform", "connect"}) =>
          /\ err' = "AlreadyConnected"
          /\ ~HasCall(trace', "gpio_write")
          /\ connected']_vars

\* C4 (amended): the waveform step called on a connected session fails with
\* AlreadyConnected, makes no transport call and leaves the session
\* connected; connect called on a connected session never fails with
\* AlreadyConnected: its first transport call closes the session, and when
\* it ends (connected again, or with ConnectionFailed) the waveform went out.
C4_AlreadyConnected ==
    [][connected =>
          /\ op'.name = "_send_dbgr_waveform" =>
                /\ err' = "AlreadyConnected"
                /\ trace' = <<>>
                /\ UNCHANGED <<connected, con, held>>
          /\ op'.name = "connect" =>
                /\ err' # "AlreadyConnected"
                /\ trace' # <<>> => trace'[1].k = "i2c_close"
                /\ err' \in {"none", "ConnectionFailed"} =>
                      HasCall(trace', "gpio_write")]_vars

\* C4 witness: the waveform step was refused on a connected session.
C4_Witness ==
    /\ op.name = "_send_dbgr_waveform"
    /\ err = "AlreadyConnected"
    /\ connected /\ con = "open"

(***************************************************************************)
(* Address bounds: a connected session is called with the addresses just   *)
(* outside and just inside the bound of each space.                        *)
(***************************************************************************)
EdgeDbgr == {0, 255}
EdgeXram == {0, 65535}
EdgeSfr  == {128, 255}
EdgeIram == {0, 255}

NextBounds ==
    \/ Connect(FALSE)
    \/ DbgrRead((OutOfDbgr \cup EdgeDbgr) \X {TRUE}, FALSE)
    \/ DbgrWrite(OutOfDbgr \X {86} \X {TRUE}, FALSE)
    \/ XramRead((OutOfXram \cup EdgeXram) \X {TRUE} \X BOOLEAN, FALSE)
    \/ XramWrite((OutOfXram \cup EdgeXram) \X {86} \X {TRUE}, FALSE)
    \/ SfrRead((OutOfSfr \cup EdgeSfr) \X {TRUE}, FALSE)
    \/ SfrWrite(OutOfSfr \X {86} \X {TRUE}, FALSE)
    \/ IramRead((OutOfIram \cup EdgeIram) \X {TRUE}, FALSE)
    \/ IramWrite(OutOfIram \X {86} \X {TRUE}, FALSE)

SpecBounds == Init /\ [][NextBounds]_vars

\* The call o addresses its space outside the space's bound.
OutOfBound(o) ==
    \/ o.name \in {"dbgr_read", "dbgr_write", "iram_read", "iram_write"}
         /\ ~(0 <= o.addr /\ o.addr <= 255)
    \/ o.name \in {"xram_read", "xram_write"}
         /\ ~(0 <= o.addr /\ o.addr <= 65535)
    \/ o.name \in {"sfr_read", "sfr_write"}
         /\ ~(128 <= o.addr /\ o.addr <= 255)

\* C2: on a connected session a read or write with an address outside the
\* bound of its space fails with AddressOutOfRange, makes no transport call
\* and leaves the address-high cache and the device as they were: the
\* address is not clamped or wrapped into the space.
C2_AddressOutOfRange ==
    [][(connected /\ OutOfBound(op')) =>
          /\ err' = "AddressOutOfRange"
          /\ trace' = <<>>
          /\ ret' = NoRet
          /\ UNCHANGED <<connected, con, _xaddrh, regs, cmd, xram>>]_vars

\* C2 witness: with the address-high cache set, xram_read one above the
\* bound, keep_addrh set, is refused.
C2_Witness ==
    /\ connected
    /\ op.name = "xram_read" /\ op.addr = 65536 /\ op.keep
    /\ err = "AddressOutOfRange" /\ trace = <<>>
    /\ _xaddrh = 255

(***************************************************************************)
(* Properties of the register spaces (SpecMem).                            *)
(***************************************************************************)
ReadOf(name) ==
    CASE name = "dbgr_write" -> "dbgr_read"
      [] name = "xram_write" -> "xram_read"
      [] name = "sfr_write"  -> "sfr_read"
      [] name = "iram_write" -> "iram_read"
      [] OTHER -> "none"

\* C5: in every space a write of v to an address followed by a read of the
\* same address returns v, whatever the relax flags of the two calls and,
\* for XRAM, whatever keep_addrh.
C5_RoundTrip ==
    [][(connected /\ err = "none" /\ ReadOf(op.name) # "none"
          /\ op'.name = ReadOf(op.name) /\ op'.addr = op.addr) =>
          (err' = "none" /\ ret' = <<op.data>>)]_vars

\* C5 witness: after the cache was set to another page, an XRAM write is
\* read back with keep_addrh set and the bus held.
C5_Witness ==
    /\ connected
    /\ op.name = "xram_read" /\ op.keep /\ ~op.relax
    /\ err = "none"
    /\ ret = <<Get(xram, op.addr, 0)>>
    /\ ret[1] \in Bytes
    /\ \E i \in 1..Len(trace) :
          trace[i].k = "write" /\ trace[i].reg = DBGR_XADDRH

(***************************************************************************)
(* The address-high cache: XRAM reads and writes on several pages, across  *)
(* sessions.                                                               *)
(***************************************************************************)
CacheAddrs == {p * 256 + 52 : p \in Pages}

NextCache ==
    \/ Connect(FALSE)
    \/ Close
    \/ XramRead(CacheAddrs \X {TRUE} \X BOOLEAN, FALSE)
    \/ XramWrite(CacheAddrs \X Bytes \X {TRUE}, FALSE)

SpecCache == Init /\ [][NextCache]_vars

\* The writes to the debug register r among the transport calls t.
RegWrites(t, r) == {i \in 1..Len(t) : t[i].k = "write" /\ t[i].reg = r}

\* C6 (as claimed): after an xram_write or an xram_read the cache does not
\* keep a value different from the high byte last sent to XADDRH, and after
\* a connect the cache is unset.
C6_CacheInvalidated ==
    /\ (op.name \in {"xram_read", "xram_write"} /\ err = "none") =>
          (_xaddrh = UNSET \/ _xaddrh = Get(regs, DBGR_XADDRH, 0))
    /\ (op.name = "connect" /\ err = "none") => _xaddrh = UNSET

\* C7 (as claimed): xram_write(a, v) followed at once by xram_read(a) with
\* keep_addrh set writes XADDRH exactly once over the two calls, and the
\* read returns v.
C7_OneAddrhWrite ==
    [][(connected /\ op.name = "xram_write" /\ err = "none"
          /\ op'.name = "xram_read" /\ op'.keep /\ op'.addr = op.addr) =>
          /\ err' = "none"
          /\ ret' = <<op.data>>
          /\ Cardinality(RegWrites(trace, DBGR_XADDRH))
               + Cardinality(RegWrites(trace', DBGR_XADDRH)) = 1]_vars

(***************************************************************************)
(* Flash identification, with transport calls that may fail.               *)
(***************************************************************************)
NextFlash ==
    \/ Connect(FALSE)
    \/ FlashId(TRUE)
    \/ FlashIdExt(TRUE)
    \/ FlashEnterFollowMode(BOOLEAN, FALSE)
    \/ FlashExitFollowMode(FALSE)

SpecFlash == Init /\ [][NextFlash]_vars

\* The calls t entered follow mode: 0 was written through ECINDDR.
EnteredFollow(t) ==
    \E i \in 1..Len(t) :
        t[i].k = "write" /\ t[i].reg = DBGR_ECINDDR /\ t[i].val = 0

\* C8 (as claimed): when flash_id or flash_id_ext has entered follow mode,
\* and then returns, or fails in the command write or in the raw read, the
\* ECINDAR registers are zero again and follow mode is off.
C8_FollowModeExited ==
    (/\ op.name \in {"flash_id", "flash_id_ext"}
     /\ EnteredFollow(trace)
     /\ err = "none" \/ ~HasCall(trace, "read3")) =>
        /\ ~follow
        /\ \A r \in ECINDARn : Get(regs, r, 0) = 0

(***************************************************************************)
(* The breakpoint table: every breakpoint operation, with addresses inside *)
(* and outside 0..0x3ffff and slot numbers inside and outside 0..2.        *)
(***************************************************************************)
BkptArgs == Bkpts \cup {-5, UNSET}

NextBkp ==
    \/ Connect(FALSE)
    \/ EcBreakpointSet({0, 1, 3} \X (BkptArgs \cup {262144}), FALSE)
    \/ EcBreakpoints
    \/ EcBreakpointAdd(BkptArgs, FALSE)
    \/ EcBreakpointRemove(Bkpts \cup {UNSET}, FALSE)
    \/ EcBreakpointsClear(FALSE)

SpecBkp == Init /\ [][NextBkp]_vars

\* C9 (as claimed): the table has exactly 3 slots and no two occupied slots
\* hold the same address.
C9_NoDuplicates ==
    /\ Len(_breakpoints) = 3
    /\ \A i, j \in 1..Len(_breakpoints) :
          (i # j /\ _breakpoints[i] # UNSET) =>
              _breakpoints[i] # _breakpoints[j]

\* C10 (as claimed): every slot holds the unused marker or an address in
\* 0..0x3ffff, and only remove and clear turn an occupied slot into an
\* unused one.
C10_SlotRange ==
    [][/\ \A i \in 1..3 :
             _breakpoints'[i] = UNSET \/ _breakpoints'[i] \in 0..262143
       /\ op'.name \notin {"ec_breakpoint_remove", "ec_breakpoints_clear"} =>
             \A i \in 1..3 :
                _breakpoints[i] # UNSET => _breakpoints'[i] # UNSET]_vars

(***************************************************************************)
(* The breakpoint operations one by one, without transport failures: slot  *)
(* numbers inside and outside 0..2, addresses on both ends of 0..0x3ffff,  *)
(* above it and below it.                                                  *)
(***************************************************************************)
BkptAddrs == {0, 8192, 73728, 262143}     \* 0, 0x2000, 0x12000, 0x3ffff

NextBkpOps ==
    \/ Connect(FALSE)
    \/ EcBreakpointSet({-1, 0, 2, 3} \X {262143, -5, 262144}, FALSE)
    \/ EcBreakpoints
    \/ EcBreakpointAdd(BkptAddrs \cup {UNSET, 262144}, FALSE)
    \/ EcBreakpointRemove({8192, 262143, UNSET}, FALSE)
    \/ EcBreakpointsClear(FALSE)

SpecBkpOps == Init /\ [][NextBkpOps]_vars

\* The data writes among the transport calls t, as <<register, value>>.
DataWrites(t) ==
    LET w == SelectSeq(t, LAMBDA e : e.k = "write")
    IN  [i \in 1..Len(w) |-> <<w[i].reg, w[i].val>>]

\* The three bytes of addr as slot id receives them: high (bits 17..16) to
\* 0x42 + 3 id, mid to 0x41 + 3 id, low to 0x40 + 3 id.
SlotBytes(id, addr) ==
    << <<66 + 3 * id, (addr \div 65536) % 4>>,
       <<65 + 3 * id, (addr \div 256) % 256>>,
       <<64 + 3 * id, addr % 256>> >>

\* C11: ec_breakpoint_set with a slot in 0..2 and an address up to 0x3ffff
\* writes the high, mid and low byte, in that order, to the registers of
\* the slot and nothing else, then stores the address in the slot and
\* leaves the other slots alone; with a slot outside 0..2 it fails with
\* InvalidBreakpointId, otherwise with an address above 0x3ffff it fails
\* with InvalidBreakpointAddress, both without a transport call and with
\* the table as it was.
C11_BreakpointSet ==
    [][(connected /\ op'.name = "ec_breakpoint_set") =>
          LET id == op'.data
              addr == op'.addr
          IN  IF id \notin 0..2
              THEN /\ err' = "InvalidBreakpointId"
                   /\ trace' = <<>>
                   /\ UNCHANGED <<_breakpoints, regs>>
              ELSE IF addr > 262143
              THEN /\ err' = "InvalidBreakpointAddress"
                   /\ trace' = <<>>
                   /\ UNCHANGED <<_breakpoints, regs>>
              ELSE /\ err' = "none"
                   /\ DataWrites(trace') = SlotBytes(id, addr)
                   /\ _breakpoints' = [_breakpoints EXCEPT ![id + 1] = addr]
      ]_vars

\* C11 witness: slot 2, which held another address, was set to 0x3ffff
\* while slot 0 keeps its address.
C11_Witness ==
    /\ connected
    /\ op.name = "ec_breakpoint_set" /\ op.data = 2 /\ op.addr = 262143
    /\ err = "none"
    /\ _breakpoints[3] = 262143
    /\ _breakpoints[1] = 8192
    /\ Get(regs, 72, 0) = 3 /\ Get(regs, 71, 0) = 255 /\ Get(regs, 70, 0) = 255

\* The empty slots of the table.
FreeSlots == {i \in 1..3 : _breakpoints[i] = UNSET}
Lowest(S) == CHOOSE i \in S : \A j \in S : i <= j

\* C12: ec_breakpoint_add of an address that is not in the table sets the
\* lowest empty slot to it, as ec_breakpoint_set does (which refuses an
\* address above 0x3ffff); with no empty slot it fails with
\* NoFreeBreakpointSlot, without a transport call and with the table as it
\* was.
C12_BreakpointAdd ==
    [][(connected /\ op'.name = "ec_breakpoint_add"
          /\ ~Contains(_breakpoints, op'.addr)) =>
          IF FreeSlots = {}
          THEN /\ err' = "NoFreeBreakpointSlot"
               /\ trace' = <<>>
               /\ UNCHANGED <<_breakpoints, regs>>
          ELSE IF op'.addr > 262143
          THEN /\ err' = "InvalidBreakpointAddress"
               /\ trace' = <<>>
               /\ UNCHANGED <<_breakpoints, regs>>
          ELSE /\ err' = "none"
               /\ DataWrites(trace') = SlotBytes(Lowest(FreeSlots) - 1, op'.addr)
               /\ _breakpoints' =
                     [_breakpoints EXCEPT ![Lowest(FreeSlots)] = op'.addr]
      ]_vars

\* C12 witness: three adds of distinct addresses filled the table in order,
\* and the add of a fourth address was refused.
C12_Witness ==
    /\ connected
    /\ op.name = "ec_breakpoint_add" /\ op.addr = 262143
    /\ err = "NoFreeBreakpointSlot" /\ trace = <<>>
    /\ _breakpoints = <<0, 8192, 73728>>

\* C13: a second ec_breakpoint_add of the same address, right after the
\* first, leaves the table and the registers as the first left them; when
\* the first succeeded the second makes no transport call and succeeds.
C13_AddIdempotent ==
    [][(connected /\ op.name = "ec_breakpoint_add"
          /\ op'.name = "ec_breakpoint_add" /\ op'.addr = op.addr) =>
          /\ UNCHANGED <<_breakpoints, regs>>
          /\ err = "none" => (err' = "none" /\ trace' = <<>>)
      ]_vars

\* C13 witness: the second add of an address the first add had just placed
\* in an empty slot.
C13_Witness ==
    /\ connected
    /\ op.name = "ec_breakpoint_add" /\ op.addr = 8192
    /\ err = "none" /\ trace = <<>>
    /\ _breakpoints = <<0, 8192, UNSET>>
    /\ cmd = 67

\* C14: ec_breakpoint_remove of an address some slot holds writes 0xff to
\* the high-byte register of such a slot, and to no other register, and
\* marks that slot empty, leaving the other slots alone; with the address
\* in no slot it fails with BreakpointNotSet, without a transport call and
\* with the table as it was.
C14_BreakpointRemove ==
    [][(connected /\ op'.name = "ec_breakpoint_remove") =>
          IF Contains(_breakpoints, op'.addr)
          THEN /\ err' = "none"
               /\ \E i \in 1..3 :
                     /\ _breakpoints[i] = op'.addr
                     /\ DataWrites(trace') = << <<66 + 3 * (i - 1), 255>> >>
                     /\ _breakpoints' = [_breakpoints EXCEPT ![i] = UNSET]
          ELSE /\ err' = "BreakpointNotSet"
               /\ trace' = <<>>
               /\ UNCHANGED <<_breakpoints, regs>>
      ]_vars

\* C14 witness: the address of slot 1 was removed from a full table; the
\* slot is empty, its high byte 0xff, its mid byte still that of the
\* address, and the neighbours keep theirs.
C14_Witness ==
    /\ connected
    /\ op.name = "ec_breakpoint_remove" /\ op.addr = 8192
    /\ err = "none"
    /\ _breakpoints = <<0, UNSET, 262143>>
    /\ Get(regs, 69, 0) = 255 /\ Get(regs, 68, 0) = 32

\* C15: ec_breakpoints_clear writes 0xff to the three high-byte registers
\* and to nothing else and empties the table, and ec_breakpoints right
\* after it returns three empty slots.
C15_BreakpointsClear ==
    [][/\ (connected /\ op'.name = "ec_breakpoints_clear") =>
             /\ err' = "none"
             /\ DataWrites(trace') = << <<66, 255>>, <<69, 255>>, <<72, 255>> >>
             /\ _breakpoints' = <<UNSET, UNSET, UNSET>>
       /\ (connected /\ op.name = "ec_breakpoints_clear" /\ err = "none"
             /\ op'.name = "ec_breakpoints") =>
             (err' = "none" /\ ret' = <<UNSET, UNSET, UNSET>>)
      ]_vars

\* C15 witness: ec_breakpoints returns three empty slots after a table
\* with an address in slot 1 was cleared.
C15_Witness ==
    /\ connected
    /\ op.name = "ec_breakpoints" /\ err = "none"
    /\ ret = <<UNSET, UNSET, UNSET>>
    /\ Get(regs, 66, 0) = 255 /\ Get(regs, 69, 0) = 255
    /\ Get(regs, 72, 0) = 255
    /\ Get(regs, 68, 0) = 32

(***************************************************************************)
(* The relax flag: every operation that takes one, called with either      *)
(* setting.                                                                *)
(***************************************************************************)
WindowAddrs == {FOLLOW_ADDR, <<4660, 22136>>}     \* 0x7ffffe00, 0x12345678

NextRelax ==
    \/ Connect(FALSE)
    \/ DbgrRead(InDbgr \X BOOLEAN, FALSE)
    \/ DbgrWrite(InDbgr \X {86} \X BOOLEAN, FALSE)
    \/ XramRead(InXram \X BOOLEAN \X BOOLEAN, FALSE)
    \/ XramWrite(InXram \X {86} \X BOOLEAN, FALSE)
    \/ SfrRead(InSfr \X BOOLEAN, FALSE)
    \/ SfrWrite(InSfr \X {86} \X BOOLEAN, FALSE)
    \/ IramRead(InIram \X BOOLEAN, FALSE)
    \/ IramWrite(InIram \X {86} \X BOOLEAN, FALSE)
    \/ EcindarAddr(WindowAddrs \X {-1} \X BOOLEAN, FALSE)
    \/ EcindarRead({FOLLOW_ADDR} \X {-1} \X BOOLEAN, FALSE)
    \/ EcindarWrite({FOLLOW_ADDR} \X {0} \X BOOLEAN, FALSE)

SpecRelax == Init /\ [][NextRelax]_vars

\* a is the outcome of a call with relax set, b that of the same call from
\* the same state with relax clear: the same transport calls on the same
\* registers with the same values, all but the last holding the bus, the
\* last releasing it in a and holding it in b; the same result and the same
\* session and device.
SameButRelease(a, b) ==
    /\ a.err = "none" /\ b.err = "none"
    /\ Len(a.trace) = Len(b.trace) /\ Len(a.trace) > 0
    /\ \A i \in 1..Len(a.trace) :
          /\ a.trace[i].k = b.trace[i].k
          /\ a.trace[i].reg = b.trace[i].reg
          /\ a.trace[i].val = b.trace[i].val
          /\ ~b.trace[i].relax
          /\ a.trace[i].relax <=> (i = Len(a.trace))
    /\ a.ret = b.ret
    /\ a.connected = b.connected /\ a.con = b.con
    /\ a.xaddrh = b.xaddrh /\ a.bkp = b.bkp
    /\ a.regs = b.regs /\ a.cmd = b.cmd /\ a.xram = b.xram
    /\ a.follow = b.follow
    /\ ~a.held /\ b.held

\* C16: in every state of a connected session, each read or write called
\* with relax set and with relax clear makes the same transport calls,
\* returns the same value and leaves the same session and device; only the
\* last transport call releases the bus, and only when relax is set.
C16_RelaxOnlyReleases ==
    connected =>
      /\ \A a \in InDbgr :
            /\ SameButRelease(dbgr_read(Begin(0), a, TRUE),
                              dbgr_read(Begin(0), a, FALSE))
            /\ SameButRelease(dbgr_write(Begin(0), a, 86, TRUE),
                              dbgr_write(Begin(0), a, 86, FALSE))
      /\ \A a \in InXram :
            /\ \A keep \in BOOLEAN :
                  SameButRelease(xram_read(Begin(0), a, TRUE, keep),
                                 xram_read(Begin(0), a, FALSE, keep))
            /\ SameButRelease(xram_write(Begin(0), a, 86, TRUE),
                              xram_write(Begin(0), a, 86, FALSE))
      /\ \A a \in InSfr :
            /\ SameButRelease(sfr_read(Begin(0), a, TRUE),
                              sfr_read(Begin(0), a, FALSE))
            /\ SameButRelease(sfr_write(Begin(0), a, 86, TRUE),
                              sfr_write(Begin(0), a, 86, FALSE))
      /\ \A a \in InIram :
            /\ SameButRelease(iram_read(Begin(0), a, TRUE),
                              iram_read(Begin(0), a, FALSE))
            /\ SameButRelease(iram_write(Begin(0), a, 86, TRUE),
                              iram_write(Begin(0), a, 86, FALSE))
      /\ \A a \in WindowAddrs :
            /\ SameButRelease(ecindar_addr(Begin(0), a, TRUE),
                              ecindar_addr(Begin(0), a, FALSE))
            /\ SameButRelease(ecindar_read(Begin(0), a, TRUE),
                              ecindar_read(Begin(0), a, FALSE))
            /\ \A d \in {0, 86} :
                  SameButRelease(ecindar_write(Begin(0), a, d, TRUE),
                                 ecindar_write(Begin(0), a, d, FALSE))

\* C16 witness: an XRAM read that had to send XADDRH, called with relax
\* clear after a call that had released the bus, holds the bus after its
\* six transport calls.
C16_Witness ==
    /\ connected
    /\ op.name = "xram_read" /\ ~op.relax /\ op.keep
    /\ err = "none" /\ ret = <<86>>
    /\ Len(trace) = 6
    /\ held

(***************************************************************************)
(* The wake waveform (SpecSession).                                        *)
(***************************************************************************)
\* The waveform is 16000 bytes, byte 8k + i being byte i of the pattern
\* 00 00 02 03 01 01 03 02.
WaveIsPattern ==
    /\ Len(wave) = 16000
    /\ \A k \in 0..1999 : \A i \in 0..7 :
          wave[8 * k + i + 1] = <<0, 0, 2, 3, 1, 1, 3, 2>>[i + 1]

\* C17: the waveform is the 8-byte pattern repeated to exactly 16000 bytes;
\* every waveform written has that length, and whenever the transport has
\* been reconfigured into I2C mode the waveform was written, the buffers
\* purged and the pins released, in that order, before.
C17_Waveform ==
    /\ WaveIsPattern
    /\ \A j \in 1..Len(trace) :
          /\ trace[j].k = "gpio_write" => trace[j].val = 16000
          /\ trace[j].k = "i2c_configure" =>
                \E w, p, r \in 1..(j - 1) :
                    /\ w < p /\ p < r
                    /\ trace[w].k = "gpio_write"
                    /\ trace[p].k = "gpio_purge"
                    /\ trace[r].k = "gpio_release"

\* C17 witness: a connect went through, from the waveform to the chip
\* identification.
C17_Witness ==
    /\ op.name = "connect" /\ err = "none" /\ connected
    /\ HasCall(trace, "gpio_write")
    /\ HasCall(trace, "i2c_configure")
    /\ HasCall(trace, "read")

(***************************************************************************)
(* The cache against the XADDRH register (SpecCache).                      *)
(***************************************************************************)
\* C18 (as claimed): on a connected session the cache, when set, equals
\* the XADDRH register of the device, and xram_read with keep_addrh set
\* returns the byte stored at the address it was given.
C18_CacheMatchesXaddrh ==
    /\ (connected /\ _xaddrh # UNSET) =>
          _xaddrh = Get(regs, DBGR_XADDRH, 0)
    /\ (connected /\ op.name = "xram_read" /\ op.keep /\ err = "none") =>
          ret = <<Get(xram, op.addr, 0)>>

(***************************************************************************)
(* The breakpoint table against the breakpoint registers: the breakpoint   *)
(* operations with valid arguments, any transport call of which may fail.  *)
(***************************************************************************)
NextBkpFault ==
    \/ Connect(FALSE)
    \/ EcBreakpointSet({<<1, 262143>>}, TRUE)
    \/ EcBreakpointAdd({8192}, TRUE)
    \/ EcBreakpointRemove({8192}, TRUE)
    \/ EcBreakpointsClear(TRUE)

SpecBkpFault == Init /\ [][NextBkpFault]_vars

\* The table t agrees with the registers r: an occupied slot has its three
\* registers at the bytes of its address, an empty slot its high byte at
\* 0xff.
TableInRegs(t, r) ==
    \A i \in 1..3 :
        IF t[i] = UNSET
        THEN Get(r, 66 + 3 * (i - 1), 0) = 255
        ELSE /\ Get(r, 66 + 3 * (i - 1), 0) = (t[i] \div 65536) % 4
             /\ Get(r, 65 + 3 * (i - 1), 0) = (t[i] \div 256) % 256
             /\ Get(r, 64 + 3 * (i - 1), 0) = t[i] % 256

BreakpointOps ==
    {"ec_breakpoint_set", "ec_breakpoint_add", "ec_breakpoint_remove",
     "ec_breakpoints_clear"}

\* C19 (as claimed): a breakpoint operation with an address in 0..0x3ffff,
\* started with the table and the registers in agreement, ends with them
\* in agreement, whether it succeeds or fails part-way.
C19_TableMatchesRegisters ==
    [][(connected /\ op'.name \in BreakpointOps
          /\ (op'.addr = -1 \/ op'.addr \in 0..262143)
          /\ TableInRegs(_breakpoints, regs)) =>
          TableInRegs(_breakpoints', regs')]_vars

(***************************************************************************)
(* The dumps of a connected session, over ranges inside each space that    *)
(* start and end on and off the 16-byte boundaries.                        *)
(***************************************************************************)
DumpArgs ==
    ({"dbgr", "iram"} \X {16, 20} \X {24, 32, 36})
      \cup ({"sfr"} \X {144, 148} \X {152, 160, 164})
      \cup ({"xram"} \X {4656, 4660, 4664} \X {4664, 4672, 4676})

NextDump ==
    \/ Connect(FALSE)
    \/ XramWrite({4660, 22068} \X Bytes \X {TRUE}, FALSE)
    \/ connected /\ Dump(DumpArgs, FALSE)

SpecDump == Init /\ [][NextDump]_vars

\* The addresses the transport calls t read, by their low byte: the
\* registers read for the DBGR space, the values sent to XADDRL for the
\* spaces behind XRAM.
AddrsRead(t, name) ==
    LET r == SelectSeq(t, LAMBDA e :
                 IF name = "dbgr_dump" THEN e.k = "read"
                 ELSE e.k = "write" /\ e.reg = DBGR_XADDRL)
    IN  [i \in 1..Len(r) |-> IF name = "dbgr_dump" THEN r[i].reg ELSE r[i].val]

DumpOps == {"dbgr_dump", "xram_dump", "sfr_dump", "iram_dump"}

\* C20 (as claimed): a dump of [start, end) ends without error, has read
\* the addresses from start rounded down to a multiple of 16 up to end - 1,
\* once each in ascending order, with XADDRH sent at most once for the
\* spaces behind XRAM, and ends with the bus released.
C20_Dump ==
    (connected /\ op.name \in DumpOps) =>
        LET start == op.addr - (op.addr % 16)
            end == op.data
        IN  /\ err = "none"
            /\ AddrsRead(trace, op.name) =
                  [i \in 1..(end - start) |-> (start + i - 1) % 256]
            /\ op.name # "dbgr_dump" =>
                  Cardinality(RegWrites(trace, DBGR_XADDRH)) <= 1
            /\ trace # <<>> /\ trace[Len(trace)].k = "epilog"
            /\ ~held

=============================================================================
